---------------------------- MODULE Spec2Model ----------------------------
(***************************************************************************)
(* A model of generate-schemas.js: the name sanitizer (safeName), the      *)
(* property converter (propToSchema), the descriptor assembler             *)
(* (descToSchema) and the plugin traversal (processPackage and the main    *)
(* script).                                                                *)
(*                                                                         *)
(* Strings the code inspects character by character (names that are        *)
(* sanitized, version labels, object keys whose order matters) are         *)
(* sequences of one-character strings.  Strings the code only compares     *)
(* (type tags, schema keywords) are TLA+ strings.                          *)
(***************************************************************************)
EXTENDS Integers, Sequences, FiniteSets, TLC

VARIABLES
    str, out, again,                 \* safeName: argument, result, result of re-applying
    props, prop, frag, schema,       \* converter: desc.properties, one definition, its fragment, the document
    manifest,                        \* the two package manifests
    pc, pkg, nodeIdx,                \* control point, package and node file being processed
    classes, toProcess, nProcess,    \* exports left of the module, entries left of toProcess, toProcess.length
    success, failed, counts,         \* the counters of processPackage and the counts it returned
    files,                           \* the output directory: file name -> document and number of writes
    attempted, loaded,               \* history: node files required, modules they gave
    curModule, curClass              \* history: the current module and class

nameVars == <<str, out, again>>
convVars == <<props, prop, frag, schema>>
runVars  == <<manifest, pc, pkg, nodeIdx, classes, toProcess, nProcess,
              success, failed, counts, files, attempted, loaded, curModule, curClass>>
vars     == <<nameVars, convVars, runVars>>

(***************************************************************************)
(* Strings                                                                 *)
(***************************************************************************)
Chars(s) == {s[i] : i \in 1..Len(s)}

unknown == <<"u", "n", "k", "n", "o", "w", "n">>

\* A JavaScript value handed to safeName: undefined/null, or a string.
Undefined == [defined |-> FALSE, s |-> <<>>]
StrVal(s) == [defined |-> TRUE, s |-> s]

\* x || y for a string-or-undefined x: the empty string is falsy too.
Falsy(v) == ~v.defined \/ v.s = <<>>
OrElse(v, w) == IF Falsy(v) THEN w ELSE v

\* The control characters \x00-\x1f the model writes down.
ControlChars == {"\t", "\n", "\r", "\f"}

\* [<>:"/\\|?*\x00-\x1f]
ForbiddenChars == {"<", ">", ":", "\"", "/", "\\", "|", "?", "*"} \cup ControlChars

\* \s of a JavaScript regular expression (the members the model writes down).
WhitespaceChars == {" ", "\t", "\n", "\r", "\f"}

\* The passes over a string are functions: the argument of a function is
\* evaluated once, where it is applied.
Str == Seq(STRING)

\* .replace(/[<>:"/\\|?*\x00-\x1f]/g, '')
stripForbidden[s \in Str] ==
    IF s = <<>> THEN <<>>
    ELSE IF Head(s) \in ForbiddenChars THEN stripForbidden[Tail(s)]
    ELSE <<Head(s)>> \o stripForbidden[Tail(s)]

\* s without its longest prefix of characters of C
dropWhile[s \in Str, C \in SUBSET STRING] ==
    IF s # <<>> /\ Head(s) \in C THEN dropWhile[Tail(s), C] ELSE s

\* s without its longest suffix of characters of C
dropEndWhile[s \in Str, C \in SUBSET STRING] ==
    IF s # <<>> /\ s[Len(s)] \in C
    THEN dropEndWhile[SubSeq(s, 1, Len(s) - 1), C] ELSE s

\* every maximal run of at least `min` characters of C becomes one "_"
collapseRuns[s \in Str, C \in SUBSET STRING, min \in Nat] ==
    IF s = <<>> THEN <<>>
    ELSE IF Head(s) \in C
         THEN LET rest == dropWhile[s, C]
                  n    == Len(s) - Len(rest)
              IN  IF n >= min
                  THEN <<"_">> \o collapseRuns[rest, C, min]
                  ELSE SubSeq(s, 1, n) \o collapseRuns[rest, C, min]
         ELSE <<Head(s)>> \o collapseRuns[Tail(s), C, min]

\* .replace(/\s+/g, '_')
whitespaceToUnderscore(s) == collapseRuns[s, WhitespaceChars, 1]

\* .replace(/_{2,}/g, '_')
collapseUnderscores(s) == collapseRuns[s, {"_"}, 2]

stripEnds(s, C) == dropEndWhile[dropWhile[s, C], C]

\* .replace(/^_+|_+$/g, '')
trimUnderscores(s) == stripEnds(s, {"_"})

\* .trim()
trim(s) == stripEnds(s, WhitespaceChars)

\* a plausible slip: the separators are collapsed before the whitespace is replaced
safeNameCollapseFirst(v) ==
    LET s0 == IF Falsy(v) THEN unknown ELSE v.s
        s  == trim(trimUnderscores(whitespaceToUnderscore(
                   collapseUnderscores(stripForbidden[s0]))))
    IN  IF s = <<>> THEN unknown ELSE s

safeName(v) ==
    LET s0 == IF Falsy(v) THEN unknown ELSE v.s
        s  == trim(trimUnderscores(collapseUnderscores(
                   whitespaceToUnderscore(stripForbidden[s0]))))
    IN  IF s = <<>> THEN unknown ELSE s


(***************************************************************************)
(* JavaScript values                                                       *)
(***************************************************************************)
\* An optional value: None is undefined, Some(x) is the value x.
None == <<>>
Some(x) == <<x>>

\* A plain object whose own keys are kept in the order Object.keys and
\* JSON.stringify list them: array-index keys first, ascending, then the
\* other keys in the order they were first assigned.
EmptyObj == [keys |-> <<>>, vals |-> <<>>]

Digits == <<"0", "1", "2", "3", "4", "5", "6", "7", "8", "9">>

DigitVal(c) == (CHOOSE i \in 1..10 : Digits[i] = c) - 1

RECURSIVE toNumber(_)
\* Number(s) of a string of decimal digits
toNumber(s) ==
    IF s = <<>> THEN 0
    ELSE toNumber(SubSeq(s, 1, Len(s) - 1)) * 10 + DigitVal(s[Len(s)])

\* An array index in the sense of the language: a canonical numeric
\* string (no leading zero) below 2^32 - 1.
isArrayIndex(k) ==
    /\ k # <<>>
    /\ Len(k) <= 9
    /\ \A i \in 1..Len(k) : \E d \in 1..10 : Digits[d] = k[i]
    /\ (Len(k) = 1 \/ k[1] # "0")

InsertAt(s, i, x) == SubSeq(s, 1, i - 1) \o <<x>> \o SubSeq(s, i, Len(s))

\* where a new key goes among the existing ones
keyPosition(keys, k) ==
    IF isArrayIndex(k)
    THEN 1 + Cardinality({i \in 1..Len(keys) :
                 isArrayIndex(keys[i]) /\ toNumber(keys[i]) < toNumber(k)})
    ELSE Len(keys) + 1

HasKey(o, k) == k \in DOMAIN o.vals

\* o[k] = v
setProperty(o, k, v) ==
    IF HasKey(o, k)
    THEN [o EXCEPT !.vals = (k :> v) @@ o.vals]
    ELSE [keys |-> InsertAt(o.keys, keyPosition(o.keys, k), k),
          vals |-> (k :> v) @@ o.vals]

\* s[k] = v for a fragment, whose key order no claim depends on
Put(s, k, v) == (k :> v) @@ s

PutIf(c, s, k, v) == IF c THEN Put(s, k, v) ELSE s

Map(f(_), s) == [i \in 1..Len(s) |-> f(s[i])]

(***************************************************************************)
(* Property definitions (the input of propToSchema)                        *)
(***************************************************************************)
NoTypeOptions ==
    [password |-> FALSE, rows |-> None, editor |-> "", minValue |-> None,
     maxValue |-> None, numberPrecision |-> None, numberStepSize |-> None,
     multipleValues |-> FALSE]

\* A property definition; "" and <<>> stand for a missing string attribute.
PropDef(name, type) ==
    [isNull |-> FALSE, name |-> name, type |-> type, displayName |-> "",
     description |-> "", default |-> None, displayOptions |-> "",
     required |-> FALSE, typeOptions |-> NoTypeOptions,
     hasOptions |-> FALSE, options |-> <<>>, hasModes |-> FALSE, modes |-> <<>>]

NullProp == [PropDef(<<>>, "") EXCEPT !.isNull = TRUE]

\* An entry of the options list of an options / multiOptions definition.
\* hasValue is ('value' in o); value is None when o.value is undefined.
Choice(name, hasValue, value, description) ==
    [isNull |-> FALSE, name |-> name, hasValue |-> hasValue, value |-> value,
     description |-> description]

NullChoice == [Choice("", FALSE, None, "") EXCEPT !.isNull = TRUE]

\* A group of a fixedCollection.
Group(name, displayName, hasValues, values) ==
    [isNull |-> FALSE, name |-> name, displayName |-> displayName,
     description |-> "", hasValues |-> hasValues, values |-> values]

\* An entry of the modes list of a resourceLocator.
Mode(name) == [name |-> name, displayName |-> name, type |-> "string"]

\* String(x) of an optional string value
String(v) == IF v = None THEN "undefined" ELSE v[1]

Null == ("null" :> TRUE)

IsNull(r) == "null" \in DOMAIN r

\* a plausible slip: the notice test is forgotten
noContributionWithoutNotice(p) == p.isNull \/ p.name = <<>>

\* !prop || !prop.name || prop.type === 'notice'
noContribution(p) == p.isNull \/ p.name = <<>> \/ p.type = "notice"

\* the fields every fragment starts with
commonFields(p) ==
    LET s1 == PutIf(p.displayName # "", <<>>, "x-title", p.displayName)
        s2 == PutIf(p.description # "", s1, "description", p.description)
        s3 == PutIf(p.default # None, s2, "default", p.default)
        s4 == PutIf(p.displayOptions # "", s3, "x-displayOptions", p.displayOptions)
    IN  PutIf(p.required, s4, "x-required", TRUE)

stringSchema(s, p) ==
    LET t  == p.typeOptions
        s1 == Put(s, "type", "string")
        s2 == PutIf(t.password, s1, "format", "password")
        s3 == PutIf(t.rows # None /\ t.rows # Some(0), s2, "x-rows", t.rows)
    IN  PutIf(t.editor # "", s3, "x-editor", t.editor)

numberSchema(s, p) ==
    LET t  == p.typeOptions
        s1 == Put(s, "type", "number")
        s2 == PutIf(t.minValue # None, s1, "minimum", t.minValue)
        s3 == PutIf(t.maxValue # None, s2, "maximum", t.maxValue)
        s4 == PutIf(t.numberPrecision # None, s3, "x-precision", t.numberPrecision)
    IN  PutIf(t.numberStepSize # None, s4, "x-stepSize", t.numberStepSize)

booleanSchema(s) == Put(s, "type", "boolean")

\* o => o && 'value' in o && o.value !== undefined
optionsFilter(o) == ~o.isNull /\ o.hasValue /\ o.value # None

\* o => o && 'value' in o
multiOptionsFilter(o) == ~o.isNull /\ o.hasValue

choiceValue(o) == o.value
choiceName(o) == IF o.name # "" THEN o.name ELSE String(o.value)
choiceDescription(o) == o.description

optionsSchema(s, p) ==
    LET s1 == Put(s, "type", "string")
        validOptions == SelectSeq(p.options, optionsFilter)
        descs == Map(choiceDescription, validOptions)
        s2 == Put(s1, "enum", Map(choiceValue, validOptions))
        s3 == Put(s2, "x-enumNames", Map(choiceName, validOptions))
    IN  IF ~p.hasOptions THEN s1
        ELSE PutIf(\E i \in 1..Len(descs) : descs[i] # "", s3,
                   "x-enumDescriptions", descs)

multiOptionsSchema(s, p) ==
    LET s1 == Put(s, "type", "array")
        validOptions == SelectSeq(p.options, multiOptionsFilter)
    IN  IF p.hasOptions
        THEN Put(Put(s1, "items", [type |-> "string",
                                   enum |-> Map(choiceValue, validOptions)]),
                 "x-enumNames", Map(choiceName, validOptions))
        ELSE Put(s1, "items", [type |-> "string"])

\* a plausible slip: the union is given a type as well
jsonSchemaTyped(s) ==
    Put(Put(s, "type", "object"),
        "oneOf", <<[type |-> "string", description |-> "JSON string"],
                   [type |-> "object"], [type |-> "array"]>>)

jsonSchema(s) ==
    Put(s, "oneOf", <<[type |-> "string", description |-> "JSON string"],
                      [type |-> "object"], [type |-> "array"]>>)

dateTimeSchema(s) == Put(Put(s, "type", "string"), "format", "date-time")

colorSchema(s) ==
    Put(Put(Put(s, "type", "string"),
            "pattern", "^#[0-9a-fA-F]{6}([0-9a-fA-F]{2})?$"),
        "x-format", "color")

modeName(m) == m.name
truthy(x) == x # ""

\* Array.isArray(prop.modes) ? prop.modes.map(m => m.name).filter(Boolean)
\*                           : ['id', 'url', 'list']
modeValues(p) ==
    IF p.hasModes THEN SelectSeq(Map(modeName, p.modes), truthy)
    ELSE <<"id", "url", "list">>

resourceLocatorSchema(s, p) ==
    LET s1 == Put(s, "type", "object")
        s2 == Put(s1, "properties",
                  ("__rl" :> [type |-> "boolean", const |-> TRUE])
                  @@ [mode  |-> [type |-> "string", enum |-> modeValues(p)],
                      value |-> [type |-> "string"]])
        s3 == Put(s2, "required", <<"mode", "value">>)
    IN  PutIf(p.hasModes, s3, "x-modes", p.modes)

filterSchema(s) ==
    Put(Put(s, "type", "object"), "properties",
        [conditions |-> [type |-> "array",
                         items |-> [type |-> "object",
                                    properties |->
                                        [leftValue  |-> [type |-> "string"],
                                         rightValue |-> <<>>,
                                         operator   |-> [type |-> "object"]]]],
         combinator |-> [type |-> "string", enum |-> <<"and", "or">>, default |-> "and"],
         options    |-> [type |-> "object",
                         properties |->
                             [caseSensitive  |-> [type |-> "boolean"],
                              leftValue      |-> [type |-> "string"],
                              typeValidation |-> [type |-> "string"]]]])

credentialsSelectSchema(s) ==
    Put(Put(s, "type", "object"), "properties",
        [credsType |-> [type |-> "string"], nodeCredentialType |-> [type |-> "string"]])

assignmentCollectionSchema(s) ==
    Put(Put(s, "type", "object"), "properties",
        [assignments |-> [type |-> "array",
                          items |-> [type |-> "object",
                                     properties |->
                                         [id    |-> [type |-> "string"],
                                          name  |-> [type |-> "string"],
                                          value |-> <<>>,
                                          type  |-> [type |-> "string",
                                                     enum |-> <<"string", "number", "boolean",
                                                                "object", "array">>]],
                                     required |-> <<"name">>]]])

defaultSchema(s, p) == Put(Put(s, "type", "string"), "x-n8n-type", p.type)


RECURSIVE propToSchema(_), convertSubs(_, _, _), convertGroups(_, _, _, _)

\* for (const sub of subs) { if (!sub || !sub.name) continue;
\*   const subS = propToSchema(sub); if (subS) obj[sub.name] = subS; }
\* from index i on
convertSubs(subs, i, obj) ==
    IF i > Len(subs) THEN obj
    ELSE LET sub  == subs[i]
             subS == propToSchema(sub)
         IN  IF sub.isNull \/ sub.name = <<>> \/ IsNull(subS)
             THEN convertSubs(subs, i + 1, obj)
             ELSE convertSubs(subs, i + 1, setProperty(obj, sub.name, subS))

groupSchema(group, multi) ==
    LET g1 == PutIf(group.displayName # "", <<>>, "x-title", group.displayName)
        g2 == PutIf(group.description # "", g1, "description", group.description)
        itemProps == IF group.hasValues THEN convertSubs(group.values, 1, EmptyObj)
                     ELSE EmptyObj
    IN  IF multi
        THEN Put(Put(g2, "type", "array"),
                 "items", [type |-> "object", properties |-> itemProps])
        ELSE Put(Put(g2, "type", "object"), "properties", itemProps)

\* the loop over the groups of a fixedCollection, from index i on
convertGroups(groups, i, multi, obj) ==
    IF i > Len(groups) THEN obj
    ELSE LET group == groups[i]
         IN  IF group.isNull \/ group.name = <<>>
             THEN convertGroups(groups, i + 1, multi, obj)
             ELSE convertGroups(groups, i + 1, multi,
                                setProperty(obj, group.name, groupSchema(group, multi)))

collectionSchema(s, p) ==
    LET s1 == Put(s, "type", "object")
    IN  PutIf(p.hasOptions, s1, "properties", convertSubs(p.options, 1, EmptyObj))

fixedCollectionSchema(s, p) ==
    Put(Put(s, "type", "object"), "properties",
        IF p.hasOptions
        THEN convertGroups(p.options, 1, p.typeOptions.multipleValues, EmptyObj)
        ELSE EmptyObj)

propToSchema(p) ==
    IF noContribution(p) THEN Null
    ELSE LET s == commonFields(p)
         IN  CASE p.type \in {"string", "hidden"} -> stringSchema(s, p)
               [] p.type = "number"               -> numberSchema(s, p)
               [] p.type = "boolean"              -> booleanSchema(s)
               [] p.type = "options"              -> optionsSchema(s, p)
               [] p.type = "multiOptions"         -> multiOptionsSchema(s, p)
               [] p.type = "collection"           -> collectionSchema(s, p)
               [] p.type = "fixedCollection"      -> fixedCollectionSchema(s, p)
               [] p.type = "json"                 -> jsonSchema(s)
               [] p.type = "dateTime"             -> dateTimeSchema(s)
               [] p.type = "color"                -> colorSchema(s)
               [] p.type = "resourceLocator"      -> resourceLocatorSchema(s, p)
               [] p.type = "filter"               -> filterSchema(s)
               [] p.type = "credentialsSelect"    -> credentialsSelectSchema(s)
               [] p.type = "assignmentCollection" -> assignmentCollectionSchema(s)
               [] OTHER                           -> defaultSchema(s, p)

(***************************************************************************)
(* Node descriptions and descToSchema                                      *)
(***************************************************************************)
\* A node description.  name and displayName are strings (<<>> when
\* missing), version is None or Some(n), hasProperties is
\* Array.isArray(desc.properties).
Desc(name, displayName, version, hasProperties, properties) ==
    [name |-> name, displayName |-> displayName, version |-> version,
     hasProperties |-> hasProperties, properties |-> properties]

\* versionLabel !== undefined ? versionLabel : (desc.version || 1)
versionOf(desc, versionLabel) ==
    IF versionLabel # None THEN versionLabel[1]
    ELSE IF desc.version # None /\ desc.version # Some(0) THEN desc.version[1]
    ELSE 1

\* The document: the title, the node identity and version, and the
\* properties mapping filled by the loop over desc.properties, which is the
\* loop of convertSubs.  The metadata copied through unchanged (description,
\* group, icon, subtitle, inputs, outputs, credentials, webhooks) is left out.
descToSchema(desc, versionLabel) ==
    [title      |-> IF desc.displayName # <<>> THEN desc.displayName ELSE desc.name,
     nodeType   |-> desc.name,
     version    |-> versionOf(desc, versionLabel),
     type       |-> "object",
     properties |-> convertSubs(IF desc.hasProperties THEN desc.properties ELSE <<>>,
                                1, EmptyObj)]


(***************************************************************************)
(* Modules, exported classes and versions (the input of processPackage)    *)
(***************************************************************************)
\* {} as a description: instance.baseDescription || {}
EmptyDesc == Desc(<<>>, <<>>, None, FALSE, <<>>)

\* An entry of instance.nodeVersions: a constructor (isFunction) that may
\* throw, or an instance; description is None or Some(desc).
Version(isFunction, ctorThrows, description) ==
    [isFunction |-> isFunction, ctorThrows |-> ctorThrows, description |-> description]

\* An export of a module.  nodeVersions is None, or Some(object) whose keys
\* are the version labels; baseDescription and description are None or
\* Some(desc).
Export(isFunction, ctorThrows, nodeVersions, baseDescription, description) ==
    [isFunction |-> isFunction, ctorThrows |-> ctorThrows,
     nodeVersions |-> nodeVersions, baseDescription |-> baseDescription,
     description |-> description]

\* What require(fullPath) gives: it throws (loads = FALSE), or a module
\* with its exports in order.
Module(loads, exports) == [loads |-> loads, exports |-> exports]

\* vInstance && vInstance.description, after
\* try { new vConstructor() } catch { vInstance = vConstructor }:
\* a constructor that threw stands for the instance and has no description
versionDescription(v) ==
    IF v.isFunction /\ v.ctorThrows THEN None ELSE v.description

RECURSIVE resolveVersions(_, _, _)
\* the loop over Object.entries(instance.nodeVersions), from entry i on
resolveVersions(versions, base, i) ==
    IF i > Len(versions.keys) THEN <<>>
    ELSE LET ver  == versions.keys[i]
             desc == versionDescription(versions.vals[ver])
         IN  IF desc # None /\ desc[1].hasProperties
             THEN <<[base |-> Some(base), desc |-> desc[1], ver |-> Some(ver)]>>
                  \o resolveVersions(versions, base, i + 1)
             ELSE resolveVersions(versions, base, i + 1)

\* the list toProcess of an instance
resolve(instance) ==
    IF instance.nodeVersions # None
    THEN resolveVersions(instance.nodeVersions[1],
                         IF instance.baseDescription # None
                         THEN instance.baseDescription[1] ELSE EmptyDesc, 1)
    ELSE IF instance.description # None /\ instance.description[1].hasProperties
    THEN <<[base |-> None, desc |-> instance.description[1], ver |-> None]>>
    ELSE <<>>

\* base ? { ...base, ...desc, properties: desc.properties } : desc
\* (an attribute that is missing is not an own key of the description)
merge(base, desc) ==
    IF base = None THEN desc
    ELSE [name        |-> IF desc.name # <<>> THEN desc.name ELSE base[1].name,
          displayName |-> IF desc.displayName # <<>> THEN desc.displayName
                          ELSE base[1].displayName,
          version     |-> IF desc.version # None THEN desc.version ELSE base[1].version,
          hasProperties |-> desc.hasProperties,
          properties  |-> desc.properties]

\* a plausible slip: the suffix is added for every version-container
vSuffixAlways(n, ver) ==
    IF ver # None THEN <<"_", "v">> \o ver[1] ELSE <<>>

\* (toProcess.length > 1 && ver !== null) ? `_v${ver}` : ''
vSuffix(n, ver) ==
    IF n > 1 /\ ver # None THEN <<"_", "v">> \o ver[1] ELSE <<>>

dotJson == <<".", "j", "s", "o", "n">>

\* safeName(merged.displayName || merged.name) + vSuffix + '.json'
fileName(merged, n, ver) ==
    safeName(OrElse(StrVal(merged.displayName), StrVal(merged.name)))
        \o vSuffix(n, ver) \o dotJson

\* descToSchema(merged, ver !== null ? Number(ver) : undefined)
document(merged, ver) ==
    descToSchema(merged, IF ver # None THEN Some(toNumber(ver[1])) ELSE None)

\* fs.writeFileSync(path.join(OUTPUT_DIR, fname), ...): the file is created
\* or replaced
writeFile(dir, fname, doc) ==
    (fname :> [doc |-> doc,
               written |-> IF fname \in DOMAIN dir THEN dir[fname].written + 1 ELSE 1])
    @@ dir

\* the packages the main script processes
NumPackages == 2

\* where a package ends: the next package, or the summary
afterPackage(p) == IF p < NumPackages THEN "start" ELSE "summary"

\* where the loop over the node files goes after node file i of n
nextNodeFile(i, n) == IF i < n THEN "require" ELSE "return"

\* a plausible slip: the exception of a module is not caught and ends the run
catchRethrows(i, n) == "crashed"

\* catch (e) { failed++; ... }: the loop goes on with the next node file
catchModuleFailure(i, n) == nextNodeFile(i, n)

\* history of the current module: whether an instantiation threw, the
\* documents written, the failure counter before and after
NoModule == [threw |-> FALSE, docs |-> 0, failedBefore |-> 0, failedAfter |-> 0,
             finished |-> FALSE]

\* history of the current class: the export, the documents written for it
NoClass == [export |-> Export(FALSE, FALSE, None, None, None), docs |-> <<>>,
            finished |-> FALSE, threw |-> FALSE]

(***************************************************************************)
(* Bounds and input sets                                                   *)
(***************************************************************************)
MaxLen == 4          \* longest string given to safeName
MaxProps == 3        \* longest list of property definitions
MaxChoices == 2      \* longest list of choices of an options definition
MaxNodes == 2        \* most node files a package manifest lists

RECURSIVE SeqsUpTo(_, _)
\* the sequences over S of length at most n
SeqsUpTo(S, n) ==
    IF n = 0 THEN {<<>>}
    ELSE LET shorter == SeqsUpTo(S, n - 1)
         IN  shorter \cup {Append(s, x) : s \in shorter, x \in S}

Alphabet == {"a", "_", " ", "/", "\t"}

NameInputs == {Undefined} \cup {StrVal(s) : s \in SeqsUpTo(Alphabet, MaxLen)}

TypeTags ==
    {"string", "hidden", "number", "boolean", "options", "multiOptions",
     "collection", "fixedCollection", "json", "dateTime", "color",
     "resourceLocator", "filter", "credentialsSelect", "assignmentCollection"}

OtherTags == {"button", "workflowSelector"}

\* the definitions that property lists are made of: repeated names, an
\* array-index name, a notice, a definition without a name, a null entry
ListUniverse ==
    {PropDef(<<"a">>, "string"), PropDef(<<"a">>, "number"),
     PropDef(<<"b">>, "string"), PropDef(<<"b">>, "notice"),
     PropDef(<<"2">>, "string"), PropDef(<<"1">>, "boolean"),
     PropDef(<<>>, "string"), NullProp}

PropLists == SeqsUpTo(ListUniverse, MaxProps)

Choices ==
    {Choice("Fast", TRUE, Some("fast"), ""), Choice("", TRUE, Some("slow"), "x"),
     Choice("Undef", TRUE, None, ""), Choice("NoValue", FALSE, None, ""), NullChoice}

ChoiceLists == SeqsUpTo(Choices, MaxChoices)

ModeLists ==
    {<<>>, <<Mode("id")>>, <<Mode("list"), Mode("id")>>, <<Mode(""), Mode("url")>>}

Decorated(p) ==
    [p EXCEPT !.displayName = "Title", !.description = "text",
              !.default = Some("d"), !.displayOptions = "show", !.required = TRUE,
              !.typeOptions = [NoTypeOptions EXCEPT !.password = TRUE,
                                                    !.minValue = Some(0),
                                                    !.maxValue = Some(300)]]

\* the single definitions given to propToSchema
PropUniverse ==
    LET plain == {PropDef(<<"x">>, t) : t \in TypeTags \cup OtherTags \cup {"notice"}}
    IN  plain \cup {Decorated(p) : p \in plain}
        \cup {[PropDef(<<>>, t) EXCEPT !.displayName = "Title"] : t \in TypeTags}
        \cup ListUniverse
        \cup {[PropDef(<<"x">>, t) EXCEPT !.hasOptions = TRUE, !.options = c] :
                  t \in {"options", "multiOptions"}, c \in ChoiceLists}
        \cup {[PropDef(<<"x">>, "resourceLocator") EXCEPT !.hasModes = TRUE, !.modes = m] :
                  m \in ModeLists}

\* a list of definitions as the sub-definitions of a collection, or as the
\* values of the one group of a fixedCollection
Wrapped(subs) ==
    {[PropDef(<<"x">>, "collection") EXCEPT !.hasOptions = TRUE, !.options = subs]}
    \cup {[PropDef(<<"x">>, "fixedCollection") EXCEPT
               !.hasOptions = TRUE,
               !.options = <<Group(<<"g">>, "G", TRUE, subs), Group(<<>>, "", FALSE, <<>>)>>,
               !.typeOptions = [NoTypeOptions EXCEPT !.multipleValues = multi]] :
           multi \in BOOLEAN}

RECURSIVE ObjOf(_)
\* the object built by assigning the pairs <<key, value>> in order
ObjOf(pairs) ==
    IF pairs = <<>> THEN EmptyObj
    ELSE LET last == pairs[Len(pairs)]
         IN  setProperty(ObjOf(SubSeq(pairs, 1, Len(pairs) - 1)), last[1], last[2])

OneProperty == <<PropDef(<<"a">>, "string")>>

DescAB    == Desc(<<"n", "1">>, <<"A", " ", "B">>, None, TRUE, OneProperty)
DescA_B   == Desc(<<"n", "2">>, <<"A", "_", "B">>, Some(2), TRUE, <<>>)
DescNoProperties == Desc(<<"n", "3">>, <<"C">>, None, FALSE, <<>>)
BaseDesc  == Desc(<<"v">>, <<"V">>, None, FALSE, <<>>)
OtherBase == Desc(<<"u">>, <<"U">>, Some(3), FALSE, <<>>)
VersionA  == Desc(<<>>, <<>>, Some(1), TRUE, OneProperty)
VersionB  == Desc(<<>>, <<"W">>, None, TRUE, <<>>)

NotAFunction == Export(FALSE, FALSE, None, None, None)
ThrowingClass == Export(TRUE, TRUE, None, None, Some(DescAB))
SingleAB == Export(TRUE, FALSE, None, None, Some(DescAB))
SingleA_B == Export(TRUE, FALSE, None, None, Some(DescA_B))
NoProperties == Export(TRUE, FALSE, None, None, Some(DescNoProperties))

\* two versions, assigned in the order 2, 1; version 1 is an instance
TwoVersions ==
    Export(TRUE, FALSE,
           Some(ObjOf(<< <<<<"2">>, Version(TRUE, FALSE, Some(VersionB))>>,
                         <<<<"1">>, Version(FALSE, FALSE, Some(VersionA))>> >>)),
           Some(BaseDesc), None)

\* two versions, the constructor of the first throws
OneVersionThrows ==
    Export(TRUE, FALSE,
           Some(ObjOf(<< <<<<"1">>, Version(TRUE, TRUE, Some(VersionA))>>,
                         <<<<"2">>, Version(TRUE, FALSE, Some(VersionA))>> >>)),
           Some(BaseDesc), None)

\* a version-container with one version
OneVersion ==
    Export(TRUE, FALSE,
           Some(ObjOf(<< <<<<"1">>, Version(TRUE, FALSE, Some(VersionA))>> >>)),
           Some(OtherBase), None)

\* two versions without a name, and no base description
NamelessVersions ==
    Export(TRUE, FALSE,
           Some(ObjOf(<< <<<<"1">>, Version(TRUE, FALSE, Some(VersionA))>>,
                         <<<<"2">>, Version(TRUE, FALSE, Some(VersionB))>> >>)),
           None, None)

\* what a node file of a manifest may hold
Modules ==
    {Module(FALSE, <<>>),
     Module(TRUE, <<SingleAB, NoProperties>>),
     Module(TRUE, <<NotAFunction, ThrowingClass, SingleA_B>>),
     Module(TRUE, <<TwoVersions, NamelessVersions>>),
     Module(TRUE, <<OneVersionThrows, OneVersion>>)}

\* A manifest: unreadable, or the number of node files it lists.
Manifests ==
    {[readable |-> FALSE, nodes |-> 0]}
    \cup {[readable |-> TRUE, nodes |-> n] : n \in 0..MaxNodes}

(***************************************************************************)
(* Specification of the sanitizer: safeName applied to an argument, then   *)
(* to its own result.                                                      *)
(***************************************************************************)
nameIdle == str = Undefined /\ out = None /\ again = None
convIdle == props = <<>> /\ prop = NullProp /\ frag = None /\ schema = None
runIdle ==
    /\ manifest = <<>> /\ pc = "idle" /\ pkg = 0 /\ counts = <<>> /\ nodeIdx = 0
    /\ classes = <<>> /\ toProcess = <<>> /\ nProcess = 0 /\ success = 0 /\ failed = 0
    /\ files = <<>> /\ attempted = <<>> /\ loaded = {}
    /\ curModule = NoModule /\ curClass = NoClass

InitName ==
    /\ str \in NameInputs /\ out = None /\ again = None
    /\ convIdle /\ runIdle

CallSafeName ==
    /\ out = None
    /\ out' = Some(safeName(str))
    /\ UNCHANGED <<str, again, convVars, runVars>>

CallSafeNameAgain ==
    /\ out # None /\ again = None
    /\ again' = Some(safeName(StrVal(out[1])))
    /\ UNCHANGED <<str, out, convVars, runVars>>

NextName == CallSafeName \/ CallSafeNameAgain

SpecName == InitName /\ [][NextName]_vars

(***************************************************************************)
(* Specification of the converter: propToSchema applied to one definition, *)
(* descToSchema applied to a description with a list of definitions.       *)
(***************************************************************************)
\* The inputs: a single definition, or a list of definitions, which is
\* given to descToSchema as the properties of a description and to
\* propToSchema as the sub-definitions of a collection.
ConvInputs ==
    {<<<<>>, p>> : p \in PropUniverse}
    \cup UNION {{<<l, w>> : w \in Wrapped(l)} : l \in PropLists}

InitConv ==
    /\ \E input \in ConvInputs : props = input[1] /\ prop = input[2]
    /\ frag = None /\ schema = None
    /\ nameIdle /\ runIdle

CallPropToSchema ==
    /\ frag = None
    /\ frag' = Some(propToSchema(prop))
    /\ UNCHANGED <<props, prop, schema, nameVars, runVars>>

CallDescToSchema ==
    /\ schema = None
    /\ schema' = Some(descToSchema(Desc(<<"n">>, <<"N">>, None, TRUE, props), None))
    /\ UNCHANGED <<props, prop, frag, nameVars, runVars>>

NextConv == CallPropToSchema \/ CallDescToSchema

SpecConv == InitConv /\ [][NextConv]_vars


(***************************************************************************)
(* Properties of the sanitizer                                             *)
(***************************************************************************)
HasDoubleUnderscore(s) == \E i \in 1..(Len(s) - 1) : s[i] = "_" /\ s[i + 1] = "_"

Sanitized(s) ==
    /\ s # <<>>
    /\ Chars(s) \cap (ForbiddenChars \cup WhitespaceChars) = {}
    /\ ~HasDoubleUnderscore(s)
    /\ s[1] # "_" /\ s[Len(s)] # "_"

\* C7: safeName returns a non-empty string without forbidden characters,
\* whitespace, runs of underscores or an underscore at either end; an
\* absent input, or one made only of characters that are stripped, gives
\* 'unknown'; and applying safeName to its result returns the result.
C7_SafeNameTotalIdempotent ==
    /\ out # None =>
          /\ Sanitized(out[1])
          /\ (Falsy(str) \/ Chars(str.s) \subseteq
                  (ForbiddenChars \cup WhitespaceChars \cup {"_"}))
                => out[1] = unknown
    /\ again # None => again = out

C7_Witness ==
    /\ again # None /\ again = out
    /\ out[1] # str.s /\ out[1] # unknown
    /\ " " \in Chars(str.s) /\ "/" \in Chars(str.s) /\ "_" \in Chars(str.s)

(***************************************************************************)
(* Properties of the converter                                             *)
(***************************************************************************)
\* the table of fragment shapes, by type tag
TableType(tag) ==
    CASE tag \in {"string", "hidden", "options", "dateTime", "color"} -> "string"
      [] tag = "number" -> "number"
      [] tag = "boolean" -> "boolean"
      [] tag = "multiOptions" -> "array"
      [] tag \in {"collection", "fixedCollection", "resourceLocator", "filter",
                  "credentialsSelect", "assignmentCollection"} -> "object"
      [] OTHER -> "string"

\* what the claims call a definition without a contribution
Absent(p) == p.isNull \/ p.name = <<>> \/ p.type = "notice"

UnionTypes(u) == [i \in 1..Len(u) |-> u[i].type]

\* C1: for a definition with a name whose type is not notice, the
\* fragment has the shape the table gives for its tag: the table's type, or
\* for json no type and a oneOf of string, object, array, or for a tag
\* outside the table type string with the tag under x-n8n-type; it has
\* exactly one of type and oneOf.
C1_ShapeMatchesTable ==
    (frag # None /\ ~Absent(prop)) =>
        LET s == frag[1]
        IN  /\ ~IsNull(s)
            /\ ("type" \in DOMAIN s) # ("oneOf" \in DOMAIN s)
            /\ prop.type = "json" =>
                   /\ "oneOf" \in DOMAIN s
                   /\ UnionTypes(s["oneOf"]) = <<"string", "object", "array">>
            /\ prop.type # "json" =>
                   /\ "type" \in DOMAIN s
                   /\ s["type"] = TableType(prop.type)
            /\ prop.type \notin TypeTags =>
                   /\ "x-n8n-type" \in DOMAIN s
                   /\ s["x-n8n-type"] = prop.type

C1_Witness ==
    /\ frag # None /\ prop.type = "json" /\ prop.displayName # ""
    /\ "oneOf" \in DOMAIN frag[1] /\ "x-title" \in DOMAIN frag[1]

\* the names of the definitions of a list that contribute a fragment
ContributingNames(defs) ==
    {defs[i].name : i \in {j \in 1..Len(defs) : ~Absent(defs[j])}}

KeySet(o) == {o.keys[i] : i \in 1..Len(o.keys)}

\* C2: a definition that is absent, has no name or is a notice converts to
\* null, and the properties mapping built from a list (by descToSchema, for
\* a collection, for a group of a fixedCollection) has no key that is not
\* the name of a contributing definition of the list.
C2_NoContribution ==
    /\ (frag # None /\ Absent(prop)) => frag[1] = Null
    /\ schema # None =>
           KeySet(schema[1].properties) \subseteq ContributingNames(props)
    /\ (frag # None /\ ~Absent(prop) /\ prop.type = "collection" /\ prop.hasOptions) =>
           KeySet(frag[1]["properties"]) \subseteq ContributingNames(prop.options)
    /\ (frag # None /\ ~Absent(prop) /\ prop.type = "fixedCollection" /\ prop.hasOptions) =>
           LET g == frag[1]["properties"].vals[<<"g">>]
               itemProps == IF prop.typeOptions.multipleValues
                            THEN g["items"].properties ELSE g["properties"]
           IN  KeySet(itemProps) \subseteq ContributingNames(prop.options[1].values)

C2_Witness ==
    /\ schema # None /\ Len(props) = 3
    /\ props[1] = PropDef(<<"b">>, "notice")
    /\ props[2] = PropDef(<<>>, "string")
    /\ props[3] = PropDef(<<"a">>, "string")
    /\ KeySet(schema[1].properties) = {<<"a">>}
    /\ frag # None /\ prop.type = "fixedCollection"

RECURSIVE Dedup(_)
\* a sequence without its repetitions, each element where it first occurs
Dedup(s) ==
    IF s = <<>> THEN <<>>
    ELSE LET d == Dedup(SubSeq(s, 1, Len(s) - 1))
             x == s[Len(s)]
         IN  IF \E i \in 1..Len(d) : d[i] = x THEN d ELSE Append(d, x)

contributes(p) == ~Absent(p)
nameOf(p) == p.name

\* the names of the contributing definitions, in input order
ContributingOrder(defs) == Dedup(Map(nameOf, SelectSeq(defs, contributes)))

LastIndex(defs, k) ==
    CHOOSE i \in 1..Len(defs) :
        /\ ~Absent(defs[i]) /\ defs[i].name = k
        /\ \A j \in (i + 1)..Len(defs) : ~(~Absent(defs[j]) /\ defs[j].name = k)

\* the keys are the contributing names, and each holds the conversion of
\* the last definition of that name
KeysAndLastWins(o, defs) ==
    /\ KeySet(o) = ContributingNames(defs)
    /\ \A k \in KeySet(o) : o.vals[k] = propToSchema(defs[LastIndex(defs, k)])

InInputOrder(o, defs) == o.keys = ContributingOrder(defs)

\* C3: the keys of the properties mapping are the names of the contributing
\* definitions, in input order with repetitions collapsed, and a repeated
\* name holds the conversion of its last occurrence; for descToSchema and
\* for the sub-definitions of a collection.
C3_OrderAndLastWins ==
    /\ schema # None =>
           /\ KeysAndLastWins(schema[1].properties, props)
           /\ InInputOrder(schema[1].properties, props)
    /\ (frag # None /\ ~Absent(prop) /\ prop.type = "collection" /\ prop.hasOptions) =>
           /\ KeysAndLastWins(frag[1]["properties"], prop.options)
           /\ InInputOrder(frag[1]["properties"], prop.options)

\* the part of C3 that does not speak of the order of the keys
C3_KeysAndLastWinsOnly ==
    /\ schema # None => KeysAndLastWins(schema[1].properties, props)
    /\ (frag # None /\ ~Absent(prop) /\ prop.type = "collection" /\ prop.hasOptions) =>
           KeysAndLastWins(frag[1]["properties"], prop.options)

\* the order of the keys when no name is an array index
C3_OrderWithoutIndexNames ==
    (schema # None /\ \A k \in ContributingNames(props) : ~isArrayIndex(k)) =>
        InInputOrder(schema[1].properties, props)

definedValue(o) == ~o.isNull /\ o.hasValue /\ o.value # None

\* C9: the items.enum of a multiOptions fragment holds the values of the
\* entries with a defined value, in input order, and equals the enum of
\* the options fragment of the same list.
C9_MultiOptionsFiltersLikeOptions ==
    (frag # None /\ ~Absent(prop) /\ prop.type = "multiOptions" /\ prop.hasOptions) =>
        /\ frag[1]["items"].enum = Map(choiceValue, SelectSeq(prop.options, definedValue))
        /\ frag[1]["items"].enum = propToSchema([prop EXCEPT !.type = "options"])["enum"]

declared(m) == m.name # ""

\* C10: a resourceLocator fragment is an object requiring mode and value
\* with a constant-true __rl; the enum of mode is the names of the
\* declared modes in order, or id, url, list when modes is absent or
\* empty, and is never empty.
C10_ModeEnumDefaults ==
    (frag # None /\ ~Absent(prop) /\ prop.type = "resourceLocator") =>
        LET s == frag[1]
            enum == s["properties"]["mode"].enum
        IN  /\ s["type"] = "object"
            /\ s["required"] = <<"mode", "value">>
            /\ s["properties"]["__rl"] = [type |-> "boolean", const |-> TRUE]
            /\ enum = IF ~prop.hasModes \/ prop.modes = <<>>
                      THEN <<"id", "url", "list">>
                      ELSE Map(modeName, SelectSeq(prop.modes, declared))
            /\ enum # <<>>


(***************************************************************************)
(* Specification of the run: the main script calls processPackage for the  *)
(* two packages and prints the summary.                                    *)
(***************************************************************************)
InitRun ==
    /\ manifest \in [1..NumPackages -> Manifests]
    /\ pc = "start" /\ pkg = 1 /\ nodeIdx = 0
    /\ classes = <<>> /\ toProcess = <<>> /\ nProcess = 0
    /\ success = 0 /\ failed = 0 /\ counts = <<>>
    /\ files = <<>> /\ attempted = <<>> /\ loaded = {}
    /\ curModule = NoModule /\ curClass = NoClass
    /\ nameIdle /\ convIdle

nodeCount == manifest[pkg].nodes

nextPackage == IF pkg < NumPackages THEN pkg + 1 ELSE pkg

finishModule(m, f) == [m EXCEPT !.finished = TRUE, !.failedAfter = f]

\* processPackage up to the loop: the manifest is read; an unreadable
\* manifest or one without node files returns { success: 0, failed: 0 }
ReadManifest ==
    /\ pc = "start"
    /\ IF ~manifest[pkg].readable \/ nodeCount = 0
       THEN /\ counts' = Append(counts, [success |-> 0, failed |-> 0])
            /\ pc' = afterPackage(pkg)
            /\ pkg' = nextPackage
            /\ UNCHANGED <<nodeIdx, success, failed>>
       ELSE /\ success' = 0 /\ failed' = 0 /\ nodeIdx' = 1
            /\ pc' = "require"
            /\ UNCHANGED <<counts, pkg>>
    /\ UNCHANGED <<manifest, classes, toProcess, nProcess, files, attempted, loaded,
                   curModule, curClass, nameVars, convVars>>

\* require(fullPath) throws: the catch of the module counts a failure
RequireThrows ==
    /\ pc = "require"
    /\ attempted' = Append(attempted, <<pkg, nodeIdx>>)
    /\ failed' = failed + 1
    /\ pc' = catchModuleFailure(nodeIdx, nodeCount)
    /\ nodeIdx' = nodeIdx + 1
    /\ curModule' = finishModule([NoModule EXCEPT !.failedBefore = failed], failed + 1)
    /\ UNCHANGED <<manifest, pkg, loaded, classes, toProcess, nProcess, success, counts,
                   files, curClass, nameVars, convVars>>

\* require(fullPath) gives a module: the loop over its exports starts.
\* The node files of the manifests are different files: each gives a
\* module no other node file gave.
RequireModule ==
    /\ pc = "require"
    /\ \E mod \in {m \in Modules : m.loads} \ loaded :
          /\ attempted' = Append(attempted, <<pkg, nodeIdx>>)
          /\ loaded' = loaded \cup {mod}
          /\ classes' = mod.exports
          /\ IF mod.exports = <<>>
             THEN /\ pc' = nextNodeFile(nodeIdx, nodeCount)
                  /\ nodeIdx' = nodeIdx + 1
                  /\ curModule' = finishModule([NoModule EXCEPT !.failedBefore = failed],
                                               failed)
             ELSE /\ pc' = "class"
                  /\ nodeIdx' = nodeIdx
                  /\ curModule' = [NoModule EXCEPT !.failedBefore = failed]
    /\ UNCHANGED <<manifest, pkg, toProcess, nProcess, success, failed, counts,
                   files, curClass, nameVars, convVars>>

\* the loop over the exports goes on with the exports `rest`, the module
\* history being m
ContinueWith(rest, m) ==
    /\ classes' = rest
    /\ IF rest = <<>>
       THEN /\ pc' = nextNodeFile(nodeIdx, nodeCount)
            /\ nodeIdx' = nodeIdx + 1
            /\ curModule' = finishModule(m, failed)
       ELSE /\ pc' = "class"
            /\ nodeIdx' = nodeIdx
            /\ curModule' = m

\* if (typeof NodeClass !== 'function') continue;
SkipExport ==
    /\ pc = "class"
    /\ ~Head(classes).isFunction
    /\ ContinueWith(Tail(classes), curModule)
    /\ UNCHANGED <<manifest, pkg, toProcess, nProcess, success, failed, counts,
                   files, attempted, loaded, curClass, nameVars, convVars>>

\* try { instance = new NodeClass(); } catch { continue; }
InstantiateThrows ==
    /\ pc = "class"
    /\ Head(classes).isFunction /\ Head(classes).ctorThrows
    /\ ContinueWith(Tail(classes), [curModule EXCEPT !.threw = TRUE])
    /\ UNCHANGED <<manifest, pkg, toProcess, nProcess, success, failed, counts,
                   files, attempted, loaded, curClass, nameVars, convVars>>

\* the instance is made and toProcess is filled
Instantiate ==
    /\ pc = "class"
    /\ Head(classes).isFunction /\ ~Head(classes).ctorThrows
    /\ LET todo == resolve(Head(classes))
       IN  /\ toProcess' = todo
           /\ nProcess' = Len(todo)
           /\ curClass' = [export |-> Head(classes), docs |-> <<>>,
                           finished |-> todo = <<>>, threw |-> FALSE]
           /\ IF todo = <<>>
              THEN ContinueWith(Tail(classes), curModule)
              ELSE /\ pc' = "write" /\ classes' = Tail(classes)
                   /\ UNCHANGED <<nodeIdx, curModule>>
    /\ UNCHANGED <<manifest, pkg, success, failed, counts, files, attempted, loaded,
                   nameVars, convVars>>

\* the loop over toProcess goes on with the entries `rest`
NextEntry(rest, m) ==
    /\ toProcess' = rest
    /\ IF rest = <<>>
       THEN ContinueWith(classes, m)
       ELSE /\ pc' = "write" /\ UNCHANGED <<classes, nodeIdx>> /\ curModule' = m

\* if (!merged || !merged.name) continue;
SkipNameless ==
    /\ pc = "write"
    /\ merge(Head(toProcess).base, Head(toProcess).desc).name = <<>>
    /\ NextEntry(Tail(toProcess), curModule)
    /\ curClass' = [curClass EXCEPT !.finished = Tail(toProcess) = <<>>]
    /\ UNCHANGED <<manifest, pkg, nProcess, success, failed, counts, files,
                   attempted, loaded, nameVars, convVars>>

\* the document is converted and written, and counted as a success
WriteDocument ==
    /\ pc = "write"
    /\ LET e      == Head(toProcess)
           merged == merge(e.base, e.desc)
           doc    == document(merged, e.ver)
           fname  == fileName(merged, nProcess, e.ver)
       IN  /\ merged.name # <<>>
           /\ files' = writeFile(files, fname, doc)
           /\ success' = success + 1
           /\ NextEntry(Tail(toProcess), [curModule EXCEPT !.docs = curModule.docs + 1])
           /\ curClass' = [curClass EXCEPT
                               !.docs = Append(curClass.docs,
                                               [file |-> fname, version |-> doc.version]),
                               !.finished = Tail(toProcess) = <<>>]
    /\ UNCHANGED <<manifest, pkg, nProcess, failed, counts, attempted, loaded,
                   nameVars, convVars>>

\* the conversion, the serialization or the write throws: the catch of the
\* module counts a failure and the rest of the module is left out
WriteThrows ==
    /\ pc = "write"
    /\ merge(Head(toProcess).base, Head(toProcess).desc).name # <<>>
    /\ failed' = failed + 1
    /\ toProcess' = <<>> /\ classes' = <<>>
    /\ pc' = catchModuleFailure(nodeIdx, nodeCount)
    /\ nodeIdx' = nodeIdx + 1
    /\ curModule' = finishModule(curModule, failed + 1)
    /\ curClass' = [curClass EXCEPT !.finished = TRUE, !.threw = TRUE]
    /\ UNCHANGED <<manifest, pkg, nProcess, success, counts, files, attempted, loaded,
                   nameVars, convVars>>

\* return { success, failed };
ReturnCounts ==
    /\ pc = "return"
    /\ counts' = Append(counts, [success |-> success, failed |-> failed])
    /\ pc' = afterPackage(pkg)
    /\ pkg' = nextPackage
    /\ UNCHANGED <<manifest, nodeIdx, classes, toProcess, nProcess, success, failed,
                   files, attempted, loaded, curModule, curClass, nameVars, convVars>>

total == counts[1].success + counts[2].success
totalFailed == counts[1].failed + counts[2].failed

\* the summary is printed
Summary ==
    /\ pc = "summary"
    /\ pc' = "done"
    /\ UNCHANGED <<manifest, pkg, nodeIdx, classes, toProcess, nProcess, success,
                   failed, counts, files, attempted, loaded, curModule, curClass,
                   nameVars, convVars>>

NextRun ==
    \/ ReadManifest \/ RequireThrows \/ RequireModule
    \/ SkipExport \/ InstantiateThrows \/ Instantiate
    \/ SkipNameless \/ WriteDocument \/ WriteThrows
    \/ ReturnCounts \/ Summary

SpecRun == InitRun /\ [][NextRun]_vars

\* the script is a sequential program: it takes its next step whenever it has one
FairSpecRun == SpecRun /\ WF_vars(NextRun)


(***************************************************************************)
(* Properties of the run                                                   *)
(***************************************************************************)
\* C4: a module one of whose class instantiations threw has, when the
\* loop leaves it, written no document and raised the failure counter by one.
C4_InstantiationFailureCounted ==
    (curModule.finished /\ curModule.threw) =>
        /\ curModule.docs = 0
        /\ curModule.failedAfter = curModule.failedBefore + 1

RECURSIVE NodeFilesFrom(_)
\* the node files of the readable manifests from package p on, in order
NodeFilesFrom(p) ==
    IF p > NumPackages THEN <<>>
    ELSE [i \in 1..(IF manifest[p].readable THEN manifest[p].nodes ELSE 0) |-> <<p, i>>]
         \o NodeFilesFrom(p + 1)

AllAttempted ==
    /\ attempted = NodeFilesFrom(1)
    /\ Len(counts) = NumPackages
    /\ \A p \in 1..NumPackages :
           ~manifest[p].readable => counts[p] = [success |-> 0, failed |-> 0]

titleOf(base, desc) ==
    IF desc.displayName # <<>> THEN desc.displayName
    ELSE IF base.displayName # <<>> THEN base.displayName
    ELSE IF desc.name # <<>> THEN desc.name
    ELSE base.name

baseOf(export) ==
    IF export.baseDescription # None THEN export.baseDescription[1] ELSE EmptyDesc

ExpectedDocs(export) ==
    LET versions == export.nodeVersions[1]
    IN  [i \in 1..Len(versions.keys) |->
            LET label == versions.keys[i]
                v     == versions.vals[label]
                desc  == IF v.description # None THEN v.description[1] ELSE EmptyDesc
            IN  [file |-> safeName(StrVal(titleOf(baseOf(export), desc)))
                              \o <<"_", "v">> \o label \o dotJson,
                 version |-> toNumber(label)]]

NumVersions(export) ==
    IF export.nodeVersions = None THEN 1 ELSE Len(export.nodeVersions[1].keys)

\* a file name that ends in _v<digits>.json
HasVersionSuffix(f) ==
    \E i \in 1..Len(f) :
        \E label \in SeqsUpTo({"1", "2"}, 1) \ {<<>>} :
            SubSeq(f, i, Len(f)) = <<"_", "v">> \o label \o dotJson

SuffixOnlyForSeveralVersions ==
    (curClass.finished /\ NumVersions(curClass.export) <= 1) =>
        \A i \in 1..Len(curClass.docs) : ~HasVersionSuffix(curClass.docs[i].file)

\* every version is an instance with a description that has a properties
\* list and, merged with the base, a name
AllVersionsResolve(export) ==
    LET versions == export.nodeVersions[1]
    IN  \A label \in KeySet(versions) :
            LET v == versions.vals[label]
            IN  /\ ~(v.isFunction /\ v.ctorThrows)
                /\ v.description # None
                /\ v.description[1].hasProperties
                /\ (v.description[1].name # <<>> \/ baseOf(export).name # <<>>)

C8_WriteOnce ==
    /\ \A f \in DOMAIN files : files[f].written = 1
    /\ pc = "done" => Cardinality(DOMAIN files) = total

=============================================================================
